---- MODULE Spec2Model ----
(***************************************************************************)
(* A model of baseline/IMA宗宗主baseline.py: the synthetic-data generation *)
(* loop (generate_synthetic_data), the model client (call_llm) and the     *)
(* seed loader (load_seed_examples).                                       *)
(*                                                                         *)
(* Python values are modelled by their kind, which is all the code's       *)
(* control flow depends on: a JSON value by its type and by which of the   *)
(* required names it contains, an HTTP outcome by the way requests.post,   *)
(* raise_for_status, response.json and the four subscripts end.            *)
(***************************************************************************)
EXTENDS Integers, Sequences, FiniteSets, TLC

VARIABLES
    API_KEY,               \* line 10: TRUE iff LLM_API_KEY is set (non-empty)
    seedFile,              \* the file at original_data_path
    num_examples,          \* load_seed_examples' parameter
    num_to_generate,       \* generate_synthetic_data's parameter (the target)
    pc,                    \* where generate_synthetic_data stands
    seed_examples,         \* line 114
    system_prompt,         \* line 120
    generated_data_count,  \* line 123
    messages,              \* line 137: the request handed to call_llm
    llm_response_str,      \* line 143
    new_data,              \* line 148
    outDisk,               \* the content of the file at output_path
    outBuf,                \* written to f_out and not yet flushed
    nextUuid,              \* the next value uuid.uuid4() gives
    llmCalls,              \* invocations of call_llm so far
    httpRequests,          \* requests.post calls so far
    console,               \* what the step just taken printed
    raised                 \* the exception that escaped, and from where

vars == <<API_KEY, seedFile, num_examples, num_to_generate, pc, seed_examples,
          system_prompt, generated_data_count, messages, llm_response_str,
          new_data, outDisk, outBuf, nextUuid, llmCalls, httpRequests,
          console, raised>>

----------------------------------------------------------------------------
(* Bounds of the model *)

\* the largest target count of a run
MaxTarget == 2

\* the longest seed file of a whole run
MainLines == 1

\* the longest seed file load_seed_examples is applied to on its own
MaxLines == 4

\* the largest num_examples load_seed_examples is applied with on its own
MaxK == 3

\* the largest id a record returned by the model can already carry
MaxCarriedId == 1

\* llmCalls and httpRequests stop counting here (the value stands for
\* "MaxCalls or more"), so that a loop that never ends has finitely many states
MaxCalls == MaxTarget + 1

(* Program constants *)

\* line 114: load_seed_examples(original_data_path, num_examples=3)
NumExamples == 3

\* lines 106-111 (the labels, translated)
all_constraints ==
    << "semantic", "format", "style", "numeric", "length", "chinese",
       "english", "other_language", "example", "terminology", "sentiment",
       "source_text", "symbol", "vocabulary", "set", "text_structure",
       "time", "topic", "structure", "process", "boundary", "other" >>

Min(a, b) == IF a < b THEN a ELSE b


----------------------------------------------------------------------------
(* Values *)

None == [c |-> "None", truthy |-> FALSE, j |-> "none", has |-> {}, id |-> 0]

\* the names generate_synthetic_data requires of a record (line 151)
Required == {"messages", "condition"}

\* What json.loads makes of a text (line 148): j = "notjson" for a text that
\* is no JSON; otherwise the type of the value, the required names it
\* contains (keys of an object, elements of an array, substrings of a
\* string) and the id it carries as an object (0: no "id" key).
JsonTexts ==
    { [j |-> "object", has |-> h, id |-> i] :
          h \in SUBSET Required, i \in 0..MaxCarriedId }
    \cup { [j |-> k, has |-> h, id |-> 0] :
          k \in {"array", "string"}, h \in SUBSET Required }
    \cup { [j |-> k, has |-> {}, id |-> 0] :
          k \in {"number", "boolean", "null", "notjson"} }

\* The values response_json['choices'][0]['message']['content'] can be
\* (line 40): a non-empty string (truthy), the empty string, null, or a
\* value that is no string, truthy (5, true, {"a": 1}) or falsy (0, false,
\* [], {}).
Contents ==
    { [c |-> "str", truthy |-> TRUE, j |-> t.j, has |-> t.has, id |-> t.id] :
          t \in JsonTexts }
    \cup { [c |-> "str", truthy |-> FALSE, j |-> "none", has |-> {}, id |-> 0],
           [c |-> "nonstr", truthy |-> TRUE, j |-> "none", has |-> {}, id |-> 0],
           [c |-> "nonstr", truthy |-> FALSE, j |-> "none", has |-> {}, id |-> 0],
           None }

----------------------------------------------------------------------------
(* load_seed_examples, lines 53-70 *)

\* A line of the seed file: blank (line.strip() is empty), an object as the
\* input format prescribes, or text json.loads rejects.
LineKinds == {"blank", "seed", "bad"}

SeedFiles(n) ==
    { [exists |-> FALSE, lines |-> <<>>] }
    \cup UNION { { [exists |-> TRUE, lines |-> l] : l \in [1..m -> LineKinds] } :
                 m \in 0..n }

\* line 60: random.sample(lines, m): m distinct positions of the n lines, in
\* any order
Samples(n, m) ==
    { s \in [1..m -> 1..n] : \A i, j \in 1..m : i # j => s[i] # s[j] }

\* lines 61-63 on the sampled lines `sel` (positions in `lines`): a seed is
\* named by the position of its line
ParsedSeeds(lines, sel) ==
    LET Keep(i) == lines[i] # "blank"
    IN  SelectSeq(sel, Keep)

\* (mutant of load_seed_examples: a line json.loads rejects is skipped and
\* the seeds of the other lines are kept)
load_seed_examples_SkipsBadLines(file, k) ==
    IF ~file.exists
    THEN { [seeds |-> <<>>, printed |-> {"seed_file_not_found"}] }
    ELSE { LET Good(i) == file.lines[i] = "seed"
           IN  [seeds |-> SelectSeq(sel, Good),
                printed |-> IF \E i \in 1..Len(sel) : file.lines[sel[i]] = "bad"
                            THEN {"seed_file_malformed"} ELSE {}]
           : sel \in Samples(Len(file.lines), Min(Len(file.lines), k)) }

\* lines 56-70: the outcomes of load_seed_examples(file, k), each
\* [seeds, printed]
load_seed_examples(file, k) ==
    IF ~file.exists
    THEN { [seeds |-> <<>>, printed |-> {"seed_file_not_found"}] }
    ELSE { IF \E i \in 1..Len(sel) : file.lines[sel[i]] = "bad"
           THEN [seeds |-> <<>>, printed |-> {"seed_file_malformed"}]
           ELSE [seeds |-> ParsedSeeds(file.lines, sel), printed |-> {}]
           : sel \in Samples(Len(file.lines), Min(Len(file.lines), k)) }

\* lines 72-101: the prompt is a function of the seeds and of the vocabulary;
\* it is recorded by the examples it shows and the number of labels it lists
build_system_prompt(seeds, constraint_list) ==
    [built |-> TRUE, examples |-> seeds, labels |-> Len(constraint_list)]

NoPrompt == [built |-> FALSE, examples |-> <<>>, labels |-> 0]

----------------------------------------------------------------------------
(* call_llm, lines 13-51 *)

\* The kinds of a JSON value, as far as a subscript tells them apart: a dict
\* that has the key asked for or not, a list or a string that is empty or not.
ValueKinds ==
    {"dict_with_key", "dict_without_key", "list_nonempty", "list_empty",
     "str_nonempty", "str_empty", "number", "boolean", "null"}

\* line 40: the subscripts of response_json['choices'][0]['message']['content']
PathKeys == <<"str", "int", "str", "str">>

\* the kinds of response_json, ['choices'], [0] and ['message'] in a body of
\* the expected shape
GoodKinds == <<"dict_with_key", "list_nonempty", "dict_with_key", "dict_with_key">>

\* Python's value[key]: "ok", or the exception it raises. The keys of a JSON
\* object are strings, so no dict has the key 0.
Subscript(kind, key) ==
    CASE kind = "dict_with_key"    -> IF key = "str" THEN "ok" ELSE "KeyError"
      [] kind = "dict_without_key" -> "KeyError"
      [] kind = "list_nonempty"    -> IF key = "int" THEN "ok" ELSE "TypeError"
      [] kind = "list_empty"       -> IF key = "int" THEN "IndexError" ELSE "TypeError"
      [] kind = "str_nonempty"     -> IF key = "int" THEN "ok" ELSE "TypeError"
      [] kind = "str_empty"        -> IF key = "int" THEN "IndexError" ELSE "TypeError"
      [] OTHER                     -> "TypeError"

\* A JSON body: its first `good` levels have the expected shape, the next is
\* of kind `bad` (good = 4: the whole path is there and ends at `content`).
Bodies ==
    UNION { { [good |-> g, bad |-> b, content |-> None] :
                  b \in ValueKinds \ {GoodKinds[g + 1]} } :
            g \in 0..(Len(GoodKinds) - 1) }
    \cup { [good |-> Len(GoodKinds), bad |-> "none", content |-> ct] :
            ct \in Contents }

\* the kind of the value the i-th subscript is applied to; below the level
\* that departs from the shape there is only what a subscript that succeeded
\* left: the one-character string s[0] of a non-empty string s
KindAt(body, i) ==
    IF i <= body.good THEN GoodKinds[i]
    ELSE IF i = body.good + 1 THEN body.bad
    ELSE "str_nonempty"

\* line 40 from the i-th subscript on: "ok" or the exception raised
RECURSIVE Extract(_, _)
Extract(body, i) ==
    IF i > Len(PathKeys) THEN "ok"
    ELSE LET r == Subscript(KindAt(body, i), PathKeys[i])
         IN  IF r = "ok" THEN Extract(body, i + 1) ELSE r

\* What requests.post / raise_for_status / response.json can come to
\* (lines 36-38). response.json() of a body that is no JSON raises
\* requests.exceptions.JSONDecodeError, a RequestException.
HttpOutcomes ==
    { [http |-> h, body |-> [good |-> 0, bad |-> "null", content |-> None]] :
          h \in {"transport_error", "timeout", "status_not_2xx", "body_not_json"} }
    \cup { [http |-> "json", body |-> b] : b \in Bodies }

\* lines 42-51: the exceptions call_llm catches
CaughtByCallLlm == {"RequestException", "KeyError", "IndexError"}

\* lines 35-41: the exception the try block raises on the outcome, or "none"
TryBlock(outcome) ==
    IF outcome.http # "json" THEN "RequestException"
    ELSE LET r == Extract(outcome.body, 1)
         IN  IF r = "ok" THEN "none" ELSE r

\* (mutant of call_llm: a request that fails is sent a second time)
call_llm_RetriesOnce(key, outcome) ==
    IF ~key
    THEN [raises |-> "none", value |-> None, printed |-> {"missing_api_key"},
          posts |-> 0]
    ELSE LET exc == TryBlock(outcome)
         IN  IF exc = "none"
             THEN [raises |-> "none", value |-> outcome.body.content,
                   printed |-> {}, posts |-> 1]
             ELSE IF exc \in CaughtByCallLlm
             THEN [raises |-> "none", value |-> None,
                   printed |-> IF exc = "RequestException"
                               THEN {"api_request_failed"}
                               ELSE {"api_response_unexpected", "raw_response"},
                   posts |-> IF exc = "RequestException" THEN 2 ELSE 1]
             ELSE [raises |-> exc, value |-> None, printed |-> {},
                   posts |-> 1]

\* call_llm with the credential present or not, on the outcome the request
\* would have: what it returns or raises, what it prints, and how many times
\* it called requests.post (line 36, the only call, in no loop)
call_llm(key, outcome) ==
    IF ~key
    THEN [raises |-> "none", value |-> None, printed |-> {"missing_api_key"},
          posts |-> 0]
    ELSE LET exc == TryBlock(outcome)
         IN  IF exc = "none"
             THEN [raises |-> "none", value |-> outcome.body.content,
                   printed |-> {}, posts |-> 1]
             ELSE IF exc \in CaughtByCallLlm
             THEN [raises |-> "none", value |-> None,
                   printed |-> IF exc = "RequestException"
                               THEN {"api_request_failed"}
                               ELSE {"api_response_unexpected", "raw_response"},
                   posts |-> 1]
             ELSE [raises |-> exc, value |-> None, printed |-> {},
                   posts |-> 1]

----------------------------------------------------------------------------
(* generate_synthetic_data, lines 103-168 *)

NoMessages == [system |-> NoPrompt, a |-> "none", b |-> "none"]

NoException == [exc |-> "none", in |-> "none"]

\* counting up to MaxCalls
Sat(n) == IF n < MaxCalls THEN n + 1 ELSE n

\* adding k, up to MaxCalls
SatAdd(n, k) == Min(n + k, MaxCalls)

\* (mutant of NoSeeds: the test of line 115 left out)
NoSeeds_Unchecked(seeds) == FALSE

\* line 115: `if not seed_examples`
NoSeeds(seeds) == seeds = <<>>

\* (mutant of LoopContinues: <= for <)
LoopContinues_OffByOne(count, target) == count <= target

\* line 125: the loop's condition
LoopContinues(count, target) == count < target

\* Python's `name in value`: membership among the keys of a dict, the
\* elements of a list, the substrings of a string; a TypeError on a number,
\* a boolean or None
PyIn(name, v) ==
    IF v.j \in {"object", "array", "string"}
    THEN (IF name \in v.has THEN "True" ELSE "False")
    ELSE "TypeError"

\* (mutant of RequiredKeysPresent: the second conjunct left out)
RequiredKeysPresent_MessagesOnly(v) == PyIn("messages", v)

\* line 151: "messages" in new_data and "condition" in new_data
RequiredKeysPresent(v) ==
    LET first == PyIn("messages", v)
    IN  IF first = "True" THEN PyIn("condition", v) ELSE first

\* line 152: new_data['id'] = ... is defined on a dict alone (a list takes
\* no string index, a string no item assignment)
CanSetItem(v) == v.j = "object"

\* (mutant of SetId: an id the record already carries is kept, as
\* new_data.setdefault('id', ...) would)
SetId_KeepCarried(v, uuid) == IF v.id # 0 THEN v ELSE [v EXCEPT !.id = uuid]

\* line 152: new_data['id'] = str(uuid.uuid4())
SetId(v, uuid) == [v EXCEPT !.id = uuid]

\* What f_out holds: the text json.dumps gives for a record, and single
\* characters.
JsonToken(v) == [tok |-> "json", j |-> v.j, has |-> v.has, id |-> v.id]
Char(ch) == [tok |-> ch, j |-> "none", has |-> {}, id |-> 0]

\* what the file at output_path may hold before the run
OldContent == <<Char("old")>>

\* (mutant of Opened: the output opened in append mode)
Opened_ForAppend(disk) == disk

\* line 124: open(output_path, 'w') leaves the file empty
Opened(disk) == <<>>

\* line 155: the text '\\n' appended to each record: a backslash and an n
LineEnd == <<Char("backslash"), Char("n")>>

\* line 155: f_out.write(json.dumps(new_data, ensure_ascii=False) + '\\n')
Written(buf, v) == buf \o <<JsonToken(v)>> \o LineEnd

\* (mutant of Flushed: what is buffered does not reach the file)
Flushed_Nothing(disk, buf) == disk

\* line 156: f_out.flush(), and the flush of closing f_out (line 124's with)
Flushed(disk, buf) == disk \o buf

----------------------------------------------------------------------------
(* The steps of a run *)

\* the state before generate_synthetic_data(seedFile, output, target) runs
InitWith(files, targets, ks) ==
    /\ API_KEY \in BOOLEAN
    /\ seedFile \in files
    /\ num_examples \in ks
    /\ num_to_generate \in targets
    /\ pc = "Idle"
    /\ seed_examples = <<>>
    /\ system_prompt = NoPrompt
    /\ generated_data_count = 0
    /\ messages = NoMessages
    /\ llm_response_str = None
    /\ new_data = None
    /\ outDisk \in {<<>>, OldContent}
    /\ outBuf = <<>>
    /\ nextUuid = 1
    /\ llmCalls = 0
    /\ httpRequests = 0
    /\ console = {}
    /\ raised = NoException

Init == InitWith(SeedFiles(MainLines), -1..MaxTarget, {NumExamples})

\* lines 125-126 and 168: back at the loop's head with `count` records, having
\* printed `printed`: another attempt, or the end of the with block (f_out is
\* closed) and the summary
LoopHead(count, printed, disk, buf) ==
    IF LoopContinues(count, num_to_generate)
    THEN /\ pc' = "Sampling"
         /\ console' = printed
         /\ outDisk' = disk
         /\ outBuf' = buf
    ELSE /\ pc' = "Done"
         /\ console' = printed \cup {"summary"}
         /\ outDisk' = Flushed(disk, buf)
         /\ outBuf' = <<>>

\* an exception leaves generate_synthetic_data: the with block closes f_out
Raise(exc, where, printed) ==
    /\ pc' = "Raised"
    /\ raised' = [exc |-> exc, in |-> where]
    /\ console' = printed
    /\ outDisk' = Flushed(outDisk, outBuf)
    /\ outBuf' = <<>>

\* lines 113-125: load the seeds, give up without any, else build the prompt,
\* open the output for writing and enter the loop
Start ==
    /\ pc = "Idle"
    /\ \E r \in load_seed_examples(seedFile, num_examples) :
         /\ seed_examples' = r.seeds
         /\ IF NoSeeds(r.seeds)
            THEN /\ pc' = "Done"
                 /\ console' = r.printed \cup {"cannot_load_seeds"}
                 /\ UNCHANGED <<system_prompt, outDisk, outBuf>>
            ELSE /\ system_prompt' = build_system_prompt(r.seeds, all_constraints)
                 /\ LoopHead(0, r.printed, Opened(outDisk), <<>>)
    /\ generated_data_count' = 0
    /\ UNCHANGED <<API_KEY, seedFile, num_examples, num_to_generate, messages,
                   llm_response_str, new_data, nextUuid, llmCalls,
                   httpRequests, raised>>

\* (mutant of random_sample_2: two draws with replacement, as
\* random.choices(population, k=2) makes)
random_sample_2_WithReplacement(population) ==
    { <<population[i], population[j]>> : i, j \in 1..Len(population) }

\* line 129: random.sample(population, 2): the elements at two distinct
\* positions, in either order
random_sample_2(population) ==
    { <<population[q[1]], population[q[2]]>> :
          q \in { p \in (1..Len(population)) \X (1..Len(population)) :
                     p[1] # p[2] } }

\* (mutant of RequestMessages: the prompt is built again for the request,
\* without the seeds)
RequestMessages_Rebuilt(prompt, pair) ==
    [system |-> build_system_prompt(<<>>, all_constraints),
     a |-> pair[1], b |-> pair[2]]

\* lines 132-140: the system message, and the user message naming the two
\* labels
RequestMessages(prompt, pair) ==
    [system |-> prompt, a |-> pair[1], b |-> pair[2]]

\* lines 126-140: two labels at distinct positions of the vocabulary, and
\* the request that names them
Sample ==
    /\ pc = "Sampling"
    /\ \E pair \in random_sample_2(all_constraints) :
         messages' = RequestMessages(system_prompt, pair)
    /\ pc' = "Requesting"
    /\ console' = {"progress"}
    /\ UNCHANGED <<API_KEY, seedFile, num_examples, num_to_generate,
                   seed_examples, system_prompt, generated_data_count,
                   llm_response_str, new_data, outDisk, outBuf, nextUuid,
                   llmCalls, httpRequests, raised>>

\* lines 143-145 and 165-166: call_llm(messages) with the request ending as
\* `outcome`, and the test of what it returned
RequestWith(outcome) ==
    /\ pc = "Requesting"
    /\ LET r == call_llm(API_KEY, outcome)
       IN  /\ llmCalls' = Sat(llmCalls)
           /\ httpRequests' = SatAdd(httpRequests, r.posts)
           /\ IF r.raises # "none"
              THEN /\ Raise(r.raises, "call_llm", r.printed)
                   /\ UNCHANGED <<llm_response_str, messages>>
              ELSE /\ messages' = NoMessages
                   /\ raised' = raised
                   /\ IF r.value.truthy
                      THEN /\ llm_response_str' = r.value
                           /\ pc' = "Validating"
                           /\ console' = r.printed
                           /\ UNCHANGED <<outDisk, outBuf>>
                      ELSE /\ llm_response_str' = None
                           /\ LoopHead(generated_data_count,
                                       r.printed \cup {"call_failed_skipped"},
                                       outDisk, outBuf)
    /\ UNCHANGED <<API_KEY, seedFile, num_examples, num_to_generate,
                   seed_examples, system_prompt, generated_data_count,
                   new_data, nextUuid>>

\* without the credential call_llm returns before any request: one outcome
\* stands for all
Outcomes ==
    IF API_KEY THEN HttpOutcomes
    ELSE { [http |-> "transport_error",
            body |-> [good |-> 0, bad |-> "null", content |-> None]] }

Request == \E outcome \in Outcomes : RequestWith(outcome)

\* lines 146-151 and 160-164: parse the text and look for the required names
Validate ==
    /\ pc = "Validating"
    /\ LET v == llm_response_str
       IN  IF v.c # "str"
           THEN \* json.loads of a value that is no str, bytes or bytearray
                /\ Raise("TypeError", "generate_synthetic_data", {})
                /\ UNCHANGED <<llm_response_str, new_data>>
           ELSE IF v.j = "notjson"
           THEN /\ llm_response_str' = None
                /\ new_data' = new_data
                /\ raised' = raised
                /\ LoopHead(generated_data_count,
                            {"not_valid_json", "invalid_content"}, outDisk, outBuf)
           ELSE LET present == RequiredKeysPresent(v)
                IN  IF present = "TypeError"
                    THEN /\ Raise("TypeError", "generate_synthetic_data", {})
                         /\ new_data' = v
                         /\ UNCHANGED llm_response_str
                    ELSE IF present = "True"
                    THEN /\ new_data' = v
                         /\ llm_response_str' = None
                         /\ pc' = "Persisting"
                         /\ console' = {}
                         /\ UNCHANGED <<outDisk, outBuf, raised>>
                    ELSE /\ llm_response_str' = None
                         /\ new_data' = new_data
                         /\ raised' = raised
                         /\ LoopHead(generated_data_count,
                                     {"incomplete_structure"}, outDisk, outBuf)
    /\ UNCHANGED <<API_KEY, seedFile, num_examples, num_to_generate,
                   seed_examples, system_prompt, generated_data_count,
                   messages, nextUuid, llmCalls, httpRequests>>

\* lines 152-159: give the record a new id, write it, flush, count it
Persist ==
    /\ pc = "Persisting"
    /\ IF ~CanSetItem(new_data)
       THEN /\ Raise("TypeError", "generate_synthetic_data", {})
            /\ UNCHANGED <<new_data, nextUuid, generated_data_count>>
       ELSE LET rec == SetId(new_data, nextUuid)
                buf == Written(outBuf, rec)
            IN  /\ nextUuid' = nextUuid + 1
                /\ generated_data_count' = generated_data_count + 1
                /\ new_data' = None
                /\ raised' = raised
                /\ LoopHead(generated_data_count + 1, {"saved"},
                            Flushed(outDisk, buf), <<>>)
    /\ UNCHANGED <<API_KEY, seedFile, num_examples, num_to_generate,
                   seed_examples, system_prompt, messages, llm_response_str,
                   llmCalls, httpRequests>>

Next == Start \/ Sample \/ Request \/ Validate \/ Persist

Spec == Init /\ [][Next]_vars

\* A run goes on as long as it has a step to take (the program is one
\* sequential thread), and a model client that is asked again and again
\* returns a valid record again and again.
ValidOutcomes ==
    { o \in HttpOutcomes :
        /\ o.http = "json"
        /\ o.body.good = Len(GoodKinds)
        /\ o.body.content.c = "str"
        /\ o.body.content.j = "object"
        /\ o.body.content.has = Required }

RequestValid == API_KEY /\ \E outcome \in ValidOutcomes : RequestWith(outcome)

FairSpec == Spec /\ WF_vars(Next) /\ SF_vars(RequestValid)

\* The same without any assumption on the model client: a run goes on as
\* long as it has a step to take.
WeakFairSpec == Spec /\ WF_vars(Next)

----------------------------------------------------------------------------
(* load_seed_examples on its own *)

InitLoad == InitWith(SeedFiles(MaxLines), {0}, 0..MaxK)

\* lines 53-70 applied to seedFile and num_examples
LoadOnly ==
    /\ pc = "Idle"
    /\ \E r \in load_seed_examples(seedFile, num_examples) :
         /\ seed_examples' = r.seeds
         /\ console' = r.printed
    /\ pc' = "Loaded"
    /\ UNCHANGED <<API_KEY, seedFile, num_examples, num_to_generate,
                   system_prompt, generated_data_count, messages,
                   llm_response_str, new_data, outDisk, outBuf, nextUuid,
                   llmCalls, httpRequests, raised>>

NextLoad == LoadOnly

LoadSpec == InitLoad /\ [][NextLoad]_vars

----------------------------------------------------------------------------
(* The first step of a run, lines 113-125, on longer seed files *)

InitStart == InitWith(SeedFiles(MaxLines), -1..MaxTarget, {NumExamples})

NextStart == Start

StartSpec == InitStart /\ [][NextStart]_vars

----------------------------------------------------------------------------
(* What the output holds *)

\* everything written to the output, flushed or not
Output == outDisk \o outBuf

IsRecord(t) == t.tok = "json"

\* the records persisted, in order
Records(content) == SelectSeq(content, IsRecord)

\* the lines of a text: the pieces ended by a line feed, and what follows the
\* last line feed when that is not empty
RECURSIVE LinesFrom(_, _)
LinesFrom(content, line) ==
    IF content = <<>> THEN (IF line = <<>> THEN <<>> ELSE <<line>>)
    ELSE IF Head(content).tok = "LF"
    THEN <<line>> \o LinesFrom(Tail(content), <<>>)
    ELSE LinesFrom(Tail(content), Append(line, Head(content)))

Lines(content) == LinesFrom(content, <<>>)

DistinctIds(recs) ==
    \A i, k \in 1..Len(recs) : i # k => recs[i].id # recs[k].id

----------------------------------------------------------------------------
(* The claims *)

\* C1: in every reachable state every record appended to the output is a JSON
\* object that has both a top-level `messages` and a top-level `condition`
\* key, whatever the model client returned on any attempt.
C1_RecordsHaveRequiredKeys ==
    \A i \in 1..Len(Output) :
        IsRecord(Output[i]) =>
            Output[i].j = "object" /\ Required \subseteq Output[i].has

\* C1 witness: a record has been persisted in a run where an attempt was
\* rejected
C1_Witness ==
    /\ Len(Records(outDisk)) >= 1
    /\ llmCalls > generated_data_count
    /\ "incomplete_structure" \in console

\* C2 (the claim as stated): with the credential absent no HTTP request is
\* ever issued, and the run eventually reaches Done without any generation
\* attempt.
C2_MissingKeyTerminates ==
    /\ [](~API_KEY => httpRequests = 0)
    /\ (~API_KEY) ~> (pc = "Done" /\ llmCalls = 0)

\* C3 (the claim as stated): when every invocation of the model client
\* returned a valid record, a finished run with target N >= 0 leaves an
\* output of exactly N lines, each line one record by itself, with pairwise
\* distinct ids.
C3_OutputIsLineDelimited ==
    ( /\ pc = "Done"
      /\ ~NoSeeds(seed_examples)
      /\ num_to_generate >= 0
      /\ llmCalls = generated_data_count )
    => /\ Len(Lines(outDisk)) = num_to_generate
       /\ \A i \in 1..Len(Lines(outDisk)) :
              /\ Len(Lines(outDisk)[i]) = 1
              /\ IsRecord(Lines(outDisk)[i][1])
       /\ DistinctIds(Records(outDisk))

\* C4: the ids of the records persisted in a run are pairwise distinct, the
\* generator never repeating a value: the id the loop assigns replaces any id
\* the model's JSON carried.
C4_IdsDistinct == DistinctIds(Records(Output))

\* C4 witness: two records have been persisted
C4_Witness == Len(Records(outDisk)) >= 2

\* an attempt that fails: call_llm gives no text to validate, or the text is
\* no JSON object, or the object lacks a required key
C5_AttemptFails ==
    \/ pc = "Requesting" /\ pc' # "Validating"
    \/ /\ pc = "Validating"
       /\ \/ llm_response_str.j # "object"
          \/ ~(Required \subseteq llm_response_str.has)

\* C5: a failed attempt leaves the success counter and the output unchanged,
\* and a run that reaches Done after its attempts has persisted exactly as
\* many records as the target.
C5_FailuresTakeNoSlot ==
    /\ [][C5_AttemptFails =>
             /\ generated_data_count' = generated_data_count
             /\ Records(Output)' = Records(Output)]_vars
    /\ []((pc = "Done" /\ llmCalls > 0) =>
             /\ Len(Records(outDisk)) = num_to_generate
             /\ generated_data_count = num_to_generate)

\* C5 witness: a run has reached Done with its target met after an attempt
\* that failed
C5_Witness ==
    /\ pc = "Done"
    /\ llmCalls > generated_data_count
    /\ generated_data_count = num_to_generate
    /\ num_to_generate >= 1

\* the text returned parses as JSON and the value does not have both
\* required names as top-level keys
C6_ParsesButIncomplete ==
    /\ pc = "Validating"
    /\ llm_response_str.c = "str"
    /\ llm_response_str.j # "notjson"
    /\ ~(llm_response_str.j = "object" /\ Required \subseteq llm_response_str.has)

\* C6 (the claim as stated): in Validating, a text that parses as JSON
\* (object, array, string, number, boolean or null) without both required
\* top-level keys is logged and skipped: nothing is persisted, the loop is
\* back at Sampling and no exception escapes.
C6_IncompleteIsSkipped ==
    [][C6_ParsesButIncomplete =>
          /\ pc' = "Sampling"
          /\ "incomplete_structure" \in console'
          /\ raised' = NoException
          /\ Output' = Output
          /\ generated_data_count' = generated_data_count]_vars

\* C7 (the claim as stated): call_llm never raises: whatever the request
\* comes to, no exception leaves call_llm.
C7_CallLlmNeverRaises == raised.in # "call_llm"

\* the lines of the seed file that are not blank
C8_Available == { i \in 1..Len(seedFile.lines) : seedFile.lines[i] # "blank" }

\* C8 (the claim as stated, on seed files every line of which is blank or
\* well-formed): load_seed_examples(path, k) returns exactly
\* min(available, k) seeds, no seed twice, and every available seed when
\* there are fewer than k.
C8_SampleSize ==
    ( /\ pc = "Loaded"
      /\ seedFile.exists
      /\ \A i \in 1..Len(seedFile.lines) : seedFile.lines[i] # "bad" )
    => /\ Len(seed_examples) = Min(Cardinality(C8_Available), num_examples)
       /\ \A i, k \in 1..Len(seed_examples) :
              i # k => seed_examples[i] # seed_examples[k]
       /\ Cardinality(C8_Available) < num_examples =>
              C8_Available = { seed_examples[i] : i \in 1..Len(seed_examples) }

\* C9: when the seed file is absent the run reports the error and is over
\* at once: no record is persisted and the model client is never invoked
\* (no network call).
C9_MissingSeedFileAborts ==
    (~seedFile.exists /\ pc # "Idle") =>
        /\ pc = "Done"
        /\ {"seed_file_not_found", "cannot_load_seeds"} \subseteq console
        /\ Records(Output) = <<>>
        /\ generated_data_count = 0
        /\ llmCalls = 0
        /\ httpRequests = 0

\* C9 witness: a run on an absent seed file has ended
C9_Witness == ~seedFile.exists /\ pc = "Done"

\* C10 (the claim as stated): Done is not entered from the loop with the
\* counter below the target, and with a model client that returns a valid
\* record again and again every run that has loaded its seeds reaches Done
\* with the counter at the target.
C10_DoneIffTargetReached ==
    /\ []((pc = "Done" /\ ~NoSeeds(seed_examples)) =>
             generated_data_count >= num_to_generate)
    /\ (pc = "Sampling" /\ API_KEY) ~>
           (pc = "Done" /\ generated_data_count = num_to_generate)

\* C11: an invocation of call_llm issues no HTTP request when the credential
\* is absent and exactly one otherwise, whether or not the request fails; no
\* other step issues any (httpRequests counts exactly below MaxCalls).
C11_OneRequestPerCall ==
    [][IF pc = "Requesting"
       THEN httpRequests < MaxCalls =>
                httpRequests' = httpRequests + (IF API_KEY THEN 1 ELSE 0)
       ELSE httpRequests' = httpRequests]_vars

\* C11 witness: one invocation whose request failed has been made, and one
\* request issued
C11_Witness ==
    /\ llmCalls = 1
    /\ httpRequests = 1
    /\ "api_request_failed" \in console

\* the labels of the vocabulary
C12_Vocabulary == { all_constraints[i] : i \in 1..Len(all_constraints) }

\* C12: on every pass through Sampling the two labels named in the user
\* instruction are distinct and both belong to the vocabulary, which has 22
\* labels.
C12_TwoDistinctLabels ==
    /\ Cardinality(C12_Vocabulary) = 22
    /\ pc = "Requesting" =>
           /\ messages.a # messages.b
           /\ messages.a \in C12_Vocabulary
           /\ messages.b \in C12_Vocabulary

\* C12 witness: a request names the first and the last label of the
\* vocabulary
C12_Witness ==
    /\ pc = "Requesting"
    /\ messages.a = all_constraints[1]
    /\ messages.b = all_constraints[Len(all_constraints)]

\* the run has given up for want of seeds after a JSON-decode error: it is
\* over, with no seed kept, no invocation of the model client, no request and
\* no record
C13_Aborted ==
    /\ pc = "Done"
    /\ ~ENABLED Next
    /\ seed_examples = <<>>
    /\ {"seed_file_malformed", "cannot_load_seeds"} \subseteq console
    /\ llmCalls = 0
    /\ httpRequests = 0
    /\ generated_data_count = 0
    /\ Records(Output) = <<>>

\* C13: seed loading has no partial recovery. Once a line whose parse is
\* attempted raises a JSON-decode error (the message is printed; it is so
\* whenever a malformed line is among the sampled ones, as when the file
\* has at most num_examples lines and all are sampled), the seeds parsed
\* from the other lines are dropped and the run is aborted with no
\* invocation of the model client and no record persisted.
C13_NoPartialRecovery ==
    pc # "Idle" =>
        /\ "seed_file_malformed" \in console => C13_Aborted
        /\ ( /\ seedFile.exists
             /\ Len(seedFile.lines) <= num_examples
             /\ \E i \in 1..Len(seedFile.lines) : seedFile.lines[i] = "bad" )
           => C13_Aborted

\* C13 witness: a run on a seed file of a well-formed line followed by a
\* malformed one has been aborted
C13_Witness ==
    /\ seedFile.exists
    /\ seedFile.lines = <<"seed", "bad">>
    /\ pc = "Done"
    /\ seed_examples = <<>>

\* no invocation of the model client has returned a valid record: each
\* returned the failure signal or a text that is no JSON object with both
\* required keys
C14_EveryCallFails ==
    /\ generated_data_count = 0
    /\ raised.in # "call_llm"
    /\ llm_response_str.c # "nonstr"
    /\ ~(llm_response_str.j = "object" /\ Required \subseteq llm_response_str.has)
    /\ ~(new_data.j = "object" /\ Required \subseteq new_data.has)

\* C14 (the claim as stated): the loop has no bound on attempts. When every
\* invocation of the model client returns a failure signal or invalid
\* content, the counter stays at 0, nothing is persisted, Done is not reached
\* from the loop, and the loop goes round for ever: every request is
\* followed by another pass through Sampling, and that by another request.
C14_RetriesForever ==
    ([]C14_EveryCallFails) =>
        /\ [](/\ generated_data_count = 0
              /\ Records(Output) = <<>>
              /\ pc = "Done" => llmCalls = 0)
        /\ (pc = "Requesting") ~> (pc = "Sampling")
        /\ (pc = "Sampling") ~> (pc = "Requesting")

\* C15: between loop iterations (and once the run is over) every accepted
\* record is on disk and counted: the records written and flushed are as
\* many as the success counter, and nothing is left unflushed.
C15_FlushedEqualsCount ==
    pc # "Idle" =>
        /\ Len(Records(outDisk)) = generated_data_count
        /\ outBuf = <<>>

\* C15 witness: the loop is between two iterations with one record persisted
C15_Witness ==
    /\ pc = "Sampling"
    /\ generated_data_count = 1
    /\ Len(Records(outDisk)) = 1

\* C16: the system prompt is built once, in the step that loads the seeds
\* and before the first attempt, and never again; the system message of
\* every request is that prompt, the one built from the seeds loaded.
C16_PromptBuiltOnce ==
    /\ [][system_prompt' # system_prompt =>
              /\ pc = "Idle"
              /\ ~system_prompt.built
              /\ system_prompt'.built]_vars
    /\ [](pc = "Requesting" =>
              /\ system_prompt.built
              /\ system_prompt = build_system_prompt(seed_examples, all_constraints)
              /\ messages.system = system_prompt)

\* C16 witness: a second request is about to be sent, with the prompt of
\* the first
C16_Witness ==
    /\ pc = "Requesting"
    /\ llmCalls >= 1
    /\ messages.system = system_prompt
    /\ system_prompt.examples = seed_examples

\* what the output held before the run is still in it
C17_HoldsOldContent == \E i \in 1..Len(outDisk) : outDisk[i].tok = "old"

C18_CounterBounds ==
    /\ [](/\ 0 <= generated_data_count
          /\ generated_data_count <= (IF num_to_generate > 0
                                      THEN num_to_generate ELSE 0)
          /\ llmCalls >= generated_data_count
          /\ num_to_generate <= 0 =>
                 llmCalls = 0 /\ Records(Output) = <<>>)
    /\ [][/\ generated_data_count' \in
                 {generated_data_count, generated_data_count + 1}
          /\ pc = "Sampling" => pc' = "Requesting"
          /\ pc' = "Requesting" => pc = "Sampling"
          /\ IF pc = "Requesting"
             THEN llmCalls < MaxCalls => llmCalls' = llmCalls + 1
             ELSE llmCalls' = llmCalls]_vars

\* C18 witness: a run with seeds and a target of 0 or less is over, without
\* any invocation
C18_Witness ==
    /\ pc = "Done"
    /\ seed_examples # <<>>
    /\ num_to_generate <= 0
    /\ llmCalls = 0
    /\ generated_data_count = 0

====
